---------------------------- MODULE Spec2Model ----------------------------
(* A model of chain-blocks: the block wire codec (src/src/block.rs), the   *)
(* incremental BlockStream decoder and find_common_ancestor                *)
(* (src/src/stream.rs).                                                    *)
(*                                                                         *)
(* Bytes are integers.  A u32 is an integer; every byte of the model is    *)
(* below 128, so a decoded u32 stays below 2^31.  A u64 is kept as its two *)
(* big-endian u32 halves [hi, lo], ordered lexicographically.              *)
(* A Rust panic (an out-of-range slice index, an arithmetic overflow) is   *)
(* the outcome "Panic" of the function it happens in.                      *)
(* BlockStream.buf is a BytesMut that grows on demand: BUFFER_CAP, its     *)
(* initial capacity, bounds nothing and is not modelled.                   *)
EXTENDS Integers, Sequences, FiniteSets, TLC

VARIABLES
    \* ---- codec calls on one buffer
    src,            \* the byte slice under the Cursor handed to check/parse
    checkResult,    \* what Block::check returned on src (NoResult before)
    parseResult,    \* what Block::parse returned on src
    \* ---- one BlockStream over one transport
    sent,           \* every byte the transport will deliver (ghost)
    wire,           \* the bytes the transport has not delivered yet
    reader,         \* BlockStream.reader is Some
    buf,            \* BlockStream.buf
    items,          \* the items poll_next has yielded so far, in order (ghost)
    last,           \* what the latest poll_next returned
    \* ---- find_common_ancestor over several BlockStreams
    fWire,          \* per stream: bytes its transport has not delivered yet
    fStream,        \* per stream: [reader, buf]
    fTask,          \* per stream task: "running" | "done"
    fDecoded,       \* per stream: the blocks its decoder yielded to its task (ghost)
    fEnded,         \* per stream: how its task ended (ghost)
    stream_hashes,  \* HashMap<usize, HashSet<ParentHash>>
    blocks,         \* HashMap<ParentHash, Block>
    fPc,            \* "joining" | "returned" | "panicked"
    fResult,        \* the value find_common_ancestor returned
    \* ---- the executor that polls the tasks
    task,           \* the task that pulls the one BlockStream:
                    \* "runnable" | "suspended" | "finished" | "panicked"
    waker,          \* the transport holds the waker of that task
    fWait           \* per stream task of the search:
                    \* "runnable" | "waiting" (its transport holds the
                    \* waker) | "stalled" (Pending, no waker held)

codecVars  == <<src, checkResult, parseResult>>
streamVars == <<sent, wire, reader, buf, items, last>>
searchVars == <<fWire, fStream, fTask, fDecoded, fEnded, stream_hashes, blocks, fPc, fResult>>
execVars   == <<task, waker, fWait>>
vars       == <<codecVars, streamVars, searchVars, execVars>>

----------------------------------------------------------------------------
(* Program constants                                                       *)

PARENT_HASH_LEN == 32
BLOCK_ID_LEN == 8
PAYLOAD_SIZE_LEN == 4
\* The version byte check and parse accept.
VERSION_ONE == 1
\* The bytes before the payload: the version byte and the length field.
HeaderLen == 1 + PAYLOAD_SIZE_LEN

----------------------------------------------------------------------------
(* Bounds                                                                  *)

\* Block contents have 0..MaxContentLen bytes.
MaxContentLen == 2
\* Buffers of arbitrary bytes have 0..MaxRawLen bytes.
MaxRawLen == 6
\* find_common_ancestor is called on 1..MaxStreams streams.
MaxStreams == 2

----------------------------------------------------------------------------
(* Sequences and fixed-width big-endian integers                           *)

\* s without its first n elements, the first n elements of s, n times b.
Drop(s, n) == SubSeq(s, n + 1, Len(s))
Take(s, n) == SubSeq(s, 1, n)
Repeat(b, n) == [i \in 1..n |-> b]

IsPrefix(p, s) == Len(p) <= Len(s) /\ Take(s, Len(p)) = p

RECURSIVE ToBe(_, _)
\* n.to_be_bytes() on w bytes
ToBe(n, w) == IF w = 0 THEN <<>> ELSE Append(ToBe(n \div 256, w - 1), n % 256)

RECURSIVE FromBe(_)
\* u32::from_be_bytes, for bytes that keep the value below 2^31
FromBe(bytes) ==
    IF bytes = <<>> THEN 0
    ELSE FromBe(Take(bytes, Len(bytes) - 1)) * 256 + bytes[Len(bytes)]

\* u64 as two u32 halves
U64(hi, lo) == [hi |-> hi, lo |-> lo]
U64ToBe(n) == ToBe(n.hi, 4) \o ToBe(n.lo, 4)
U64FromBe(bytes) == U64(FromBe(Take(bytes, 4)), FromBe(Drop(bytes, 4)))
U64Less(a, b) == a.hi < b.hi \/ (a.hi = b.hi /\ a.lo < b.lo)


----------------------------------------------------------------------------
(* Block and its wire encoding                                             *)

\* Block::new
Block(parent_hash, block_number, content) ==
    [block_number |-> block_number, parent_hash |-> parent_hash, content |-> content]

\* The block field of a result that carries no block.
NoBlock == Block(<<>>, U64(0, 0), <<>>)

\* The frame of a block, as get_dummy_block_pair builds it (without the
\* trailing garbage): 0x01, the payload's length, then the payload, which is
\* parent_hash, block_number (big-endian) and content.
Payload(b) == b.parent_hash \o U64ToBe(b.block_number) \o b.content
Encode(b) == <<VERSION_ONE>> \o ToBe(Len(Payload(b)), PAYLOAD_SIZE_LEN) \o Payload(b)

----------------------------------------------------------------------------
(* The codec.  A Cursor<&[u8]> is the slice s and a position pos (0-based): *)
(* every function takes both and returns the new position with its result.  *)

\* Error::incomplete_error(), as the Err of a Result; the block field is
\* there so that every result has the same fields.
ErrIncomplete(pos) == [tag |-> "Err", kind |-> "Incomplete", val |-> 0, block |-> NoBlock, pos |-> pos]
Panicked(pos) == [tag |-> "Panic", kind |-> "Panic", val |-> 0, block |-> NoBlock, pos |-> pos]
OkVal(v, pos) == [tag |-> "Ok", kind |-> "Ok", val |-> v, block |-> NoBlock, pos |-> pos]
OkBlock(b, pos) == [tag |-> "Ok", kind |-> "Ok", val |-> 0, block |-> b, pos |-> pos]
NoResult == [tag |-> "None", kind |-> "None", val |-> 0, block |-> NoBlock, pos |-> 0]

\* Cursor's Buf::remaining: the bytes after the position, 0 when it is past
\* the end.
Remaining(s, pos) == IF pos >= Len(s) THEN 0 ELSE Len(s) - pos

\* &s[start..=end] panics when end + 1 exceeds the slice's length.
SliceInRange(s, start, end) == end + 1 <= Len(s)
Slice(s, start, end) == SubSeq(s, start + 1, end + 1)

get_u8(s, pos) ==
    IF Remaining(s, pos) = 0 THEN ErrIncomplete(pos)
    ELSE OkVal(s[pos + 1], pos + 1)

\* The guard and the read of get_payload_len, get_parent_hash and
\* get_block_id: the guard compares the whole slice's length with the field's
\* width, whatever the position; the read is of [start..=end] from the
\* position.
GuardedRead(s, pos, width) ==
    LET start == pos
        end == start + width - 1
    IN  IF Len(s) > width - 1
        THEN IF SliceInRange(s, start, end)
             THEN OkVal(Slice(s, start, end), end + 1)
             ELSE Panicked(end + 1)
        ELSE ErrIncomplete(pos)

get_payload_len(s, pos) ==
    LET r == GuardedRead(s, pos, PAYLOAD_SIZE_LEN)
    IN  IF r.tag = "Ok" THEN OkVal(FromBe(r.val), r.pos) ELSE r

get_parent_hash(s, pos) == GuardedRead(s, pos, PARENT_HASH_LEN)

get_block_id(s, pos) ==
    LET r == GuardedRead(s, pos, BLOCK_ID_LEN)
    IN  IF r.tag = "Ok" THEN OkVal(U64FromBe(r.val), r.pos) ELSE r

skip(s, pos, n) ==
    IF Remaining(s, pos) < n THEN ErrIncomplete(pos) ELSE OkVal(0, pos + n)

\* The one element of a singleton.  Only({F(x) : x \in {e}}) is F(e) with e
\* evaluated once.
Only(S) == CHOOSE x \in S : TRUE

\* Block::check after get_payload_len returned len: the test that the slice
\* holds as many bytes as the payload's length.
check_len(s, len) ==
    IF len.tag # "Ok" THEN len
    ELSE IF Len(s) < len.val THEN ErrIncomplete(len.pos)
    ELSE OkVal(0, len.pos)

\* A version match of Block::check that takes any version byte for a frame.
check_version_any(s, v) ==
    IF v.tag # "Ok" THEN v
    ELSE Only({check_len(s, len) : len \in {get_payload_len(s, v.pos)}})

\* Block::check after get_u8 returned v: the match on the version byte.
check_version(s, v) ==
    IF v.tag # "Ok" THEN v
    ELSE IF v.val # VERSION_ONE THEN ErrIncomplete(v.pos)
    ELSE Only({check_len(s, len) : len \in {get_payload_len(s, v.pos)}})

\* Block::check on a cursor at position 0.
check(s) == Only({check_version(s, v) : v \in {get_u8(s, 0)}})

\* The tail of Block::parse, after the length, the hash and the number were
\* read: the remaining-bytes test, then the content.  len - PARENT_HASH_LEN -
\* BLOCK_ID_LEN is a usize subtraction: below 40 it panics in a build with
\* overflow checks and wraps to more than 2^63 in one without, where the
\* slice [..len] of the chunk then panics: a panic in every build.
parse_content(s, pos, len, parent_hash, count) ==
    IF Remaining(s, pos) < len THEN ErrIncomplete(pos)
    ELSE IF len < PARENT_HASH_LEN + BLOCK_ID_LEN THEN Panicked(pos)
    ELSE Only({ IF sk.tag # "Ok" THEN sk
                ELSE OkBlock(Block(parent_hash, count, Slice(s, pos, sk.pos - 1)), sk.pos)
                : sk \in {skip(s, pos, len - PARENT_HASH_LEN - BLOCK_ID_LEN)} })

\* Block::parse after get_parent_hash returned parent_hash.
parse_block_id(s, len, parent_hash) ==
    IF parent_hash.tag # "Ok" THEN parent_hash
    ELSE Only({ IF count.tag # "Ok" THEN count
                ELSE parse_content(s, count.pos, len, parent_hash.val, count.val)
                : count \in {get_block_id(s, parent_hash.pos)} })

\* Block::parse after get_payload_len returned len.
parse_len(s, len) ==
    IF len.tag # "Ok" THEN len
    ELSE Only({parse_block_id(s, len.val, h) : h \in {get_parent_hash(s, len.pos)}})

\* Block::parse after get_u8 returned v: the match on the version byte.
parse_version(s, v) ==
    IF v.tag # "Ok" THEN v
    ELSE IF v.val # VERSION_ONE THEN ErrIncomplete(v.pos)
    ELSE Only({parse_len(s, len) : len \in {get_payload_len(s, v.pos)}})

\* Block::parse on a cursor at position 0.
parse(s) == Only({parse_version(s, v) : v \in {get_u8(s, 0)}})

----------------------------------------------------------------------------
(* Values of the stream and of the search                                  *)

\* What the transport's poll_read answers to poll_read_buf: not ready, an
\* error, or the bytes it appended to the buffer (none: end of input).
IoPending == [tag |-> "Pending", bytes |-> <<>>]
IoErr == [tag |-> "Err", bytes |-> <<>>]
IoOk(bytes) == [tag |-> "Ok", bytes |-> bytes]

\* An item of the stream: a Result<Block>.  An ErrorKind::Other carries the
\* transport's message, which the model does not tell apart.
Item(r) == [tag |-> r.tag, kind |-> r.kind, block |-> r.block]
ItemOk(b) == [tag |-> "Ok", kind |-> "Ok", block |-> b]
ItemErrOther == [tag |-> "Err", kind |-> "Other", block |-> NoBlock]
NoItem == [tag |-> "None", kind |-> "None", block |-> NoBlock]

\* What poll_next returns: Poll::Pending (via says which arm returned it),
\* Poll::Ready(None), Poll::Ready(Some(item)), or a panic.
PollPending(via) == [tag |-> "Pending", via |-> via, item |-> NoItem]
PollNone(via) == [tag |-> "None", via |-> via, item |-> NoItem]
PollItem(via, item) == [tag |-> "Item", via |-> via, item |-> item]
PollPanic(via) == [tag |-> "Panic", via |-> via, item |-> NoItem]
NoPoll == [tag |-> "NotPolled", via |-> "new", item |-> NoItem]

\* HashMap::insert, a map being a function on its keys.
MapInsert(m, k, v) == [x \in (DOMAIN m) \cup {k} |-> IF x = k THEN v ELSE m[x]]
EmptyMap == <<>>

\* Option<Block>, the Ok value find_common_ancestor returns.
None == [tag |-> "None", block |-> NoBlock]
Some(b) == [tag |-> "Some", block |-> b]
NotReturned == [tag |-> "NotReturned", block |-> NoBlock]

----------------------------------------------------------------------------
(* The inputs of the model                                                 *)

\* Parent hashes: 32 bytes each.  HashX starts like a frame header (0x01,
\* then the length 40): the bytes a BlockStream finds at the head of its
\* buffer after it yielded a block with this hash.
HashA == Repeat(65, PARENT_HASH_LEN)
HashB == Repeat(66, PARENT_HASH_LEN)
HashX == <<VERSION_ONE, 0, 0, 0, PARENT_HASH_LEN + BLOCK_ID_LEN>>
            \o Repeat(88, PARENT_HASH_LEN - HeaderLen)
Hashes == {HashA, HashB, HashX}

BlockNumbers == {U64(0, 5), U64(0, 9)}

\* Block contents: 0..MaxContentLen bytes 'u', the first byte of
\* get_dummy_block_pair's payload.
Contents == {Repeat(117, n) : n \in 0..MaxContentLen}

Blocks == {Block(h, n, c) : h \in Hashes, n \in BlockNumbers, c \in Contents}

\* One valid frame, exactly.
Frames == {Encode(b) : b \in Blocks}

\* A frame followed by its payload once more, the garbage
\* get_dummy_block_pair appends "to imitate a longer stream".
WithGarbage(b) == Encode(b) \o Payload(b)

\* A frame that declares the payload length len and carries n payload bytes.
Declared(len, n) == <<VERSION_ONE>> \o ToBe(len, PAYLOAD_SIZE_LEN) \o Repeat(117, n)

\* The declared lengths below the 40 bytes of hash and number that the model
\* tries, and the payload bytes that follow them.
ShortLens == {0, 1, PARENT_HASH_LEN, PARENT_HASH_LEN + BLOCK_ID_LEN - 1}
ShortFrames ==
    {Declared(len, n) : len \in ShortLens,
                        n \in 0..(2 * (PARENT_HASH_LEN + BLOCK_ID_LEN) + MaxContentLen)}

\* Every prefix of a set of byte strings, the strings included.
Prefixes(S) == UNION {{Take(w, k) : k \in 0..Len(w)} : w \in S}

\* Every byte string of 0..MaxRawLen bytes over 0, 1 and 2.
RawBytes == {0, VERSION_ONE, 2}
RawBuffers == UNION {[1..n -> RawBytes] : n \in 0..MaxRawLen}

\* The buffers check and parse are called on.
CodecInputs ==
    RawBuffers \cup ShortFrames \cup Prefixes({WithGarbage(b) : b \in Blocks})

----------------------------------------------------------------------------
(* Calls of the codec on one buffer                                        *)

CodecInit ==
    /\ src \in CodecInputs
    /\ checkResult = NoResult
    /\ parseResult = NoResult
    /\ sent = <<>> /\ wire = <<>> /\ reader = FALSE /\ buf = <<>>
    /\ items = <<>> /\ last = NoPoll
    /\ fWire = <<>> /\ fStream = <<>> /\ fTask = <<>> /\ fDecoded = <<>>
    /\ fEnded = <<>> /\ stream_hashes = EmptyMap /\ blocks = EmptyMap
    /\ fPc = "idle" /\ fResult = NotReturned
    /\ task = "runnable" /\ waker = FALSE /\ fWait = <<>>

\* Block::check(&mut Cursor::new(src))
CallCheck ==
    /\ checkResult = NoResult
    /\ checkResult' = check(src)
    /\ UNCHANGED <<src, parseResult>>

\* Block::parse(&mut Cursor::new(src))
CallParse ==
    /\ parseResult = NoResult
    /\ parseResult' = parse(src)
    /\ UNCHANGED <<src, checkResult>>

----------------------------------------------------------------------------
(* BlockStream::poll_next                                                  *)

\* BlockStream::new
NewStream == [reader |-> TRUE, buf |-> <<>>]

\* The count handed to this.buf.advance after a successful check: the
\* cursor's position where check left it.
advance_len(c) == c.pos

\* The Poll::Ready(Ok(n)), n > 0 arm after check returned c on the buffer b:
\* on success parse the buffer, advance it and yield what parse returned.
\* BytesMut::advance panics on a count beyond the buffer's length.
decode_checked(st, b, c) ==
    CASE c.tag = "Ok" ->
           Only({ IF maybe_block.tag = "Panic" \/ advance_len(c) > Len(b)
                  THEN [st |-> [reader |-> st.reader, buf |-> b], poll |-> PollPanic("parse")]
                  ELSE [st |-> [reader |-> st.reader, buf |-> Drop(b, advance_len(c))],
                        poll |-> PollItem("parse", Item(maybe_block))]
                  : maybe_block \in {parse(b)} })
      [] c.tag = "Err" /\ c.kind = "Incomplete" ->
           [st |-> [reader |-> st.reader, buf |-> b], poll |-> PollPending("incomplete")]
      [] c.tag = "Err" /\ c.kind # "Incomplete" ->
           [st |-> [reader |-> st.reader, buf |-> b], poll |-> PollItem("check", Item(c))]
      [] OTHER -> [st |-> [reader |-> st.reader, buf |-> b], poll |-> PollPanic("check")]

\* The Poll::Ready(Ok(n)), n > 0 arm, the buffer being b now.
decode_arm(st, b) == Only({decode_checked(st, b, c) : c \in {check(b)}})

\* A Poll::Ready(Err(err)) arm that yields the error and keeps the reader.
error_arm_keeps_reader(st) ==
    [st |-> st, poll |-> PollItem("transport", ItemErrOther)]

\* The Poll::Ready(Err(err)) arm: the reader is set to None and the error's
\* description is yielded as an Other error.
error_arm(st) ==
    [st |-> [st EXCEPT !.reader = FALSE], poll |-> PollItem("transport", ItemErrOther)]

\* A Poll::Ready(Ok(0)) arm that returns None and keeps the reader.
eof_arm_keeps_reader(st) ==
    [st |-> st, poll |-> PollNone("eof")]

\* A Poll::Ready(Ok(0)) arm that decodes what the buffer holds before the
\* stream ends.
eof_arm_decodes(st) ==
    Only({[st |-> [r.st EXCEPT !.reader = FALSE],
           poll |-> IF r.poll.tag = "Item" THEN r.poll ELSE PollNone("eof")]
          : r \in {decode_arm(st, st.buf)}})

\* The Poll::Ready(Ok(0)) arm: the reader is set to None and the stream
\* ends; the buffer is not looked at.
eof_arm(st) ==
    [st |-> [st EXCEPT !.reader = FALSE], poll |-> PollNone("eof")]

\* poll_next on the stream st, when the transport, if it is polled, answers
\* io: the new stream and what the poll returns.
poll_next(st, io) ==
    IF ~st.reader THEN [st |-> st, poll |-> PollNone("reader_none")]
    ELSE CASE io.tag = "Pending" -> [st |-> st, poll |-> PollPending("transport")]
           [] io.tag = "Err" -> error_arm(st)
           [] io.tag = "Ok" /\ io.bytes = <<>> -> eof_arm(st)
           [] OTHER -> Only({decode_arm(st, b) : b \in {st.buf \o io.bytes}})

\* Whether a poll of st polls the transport at all.
PollsTransport(st) == st.reader

----------------------------------------------------------------------------
(* One BlockStream pulled over one transport                               *)

\* Two valid frames, one after the other.
TwoFrames(b1, b2) == Encode(b1) \o Encode(b2)

\* The pairs of blocks whose frames a transport of the model carries: a
\* block 5 of any hash and content, then a block 9 of hash B and any content,
\* or the same block twice.
BlockPairs ==
    {<<b1, b2>> \in Blocks \X Blocks :
        /\ b1.block_number = U64(0, 5)
        /\ \/ b2.block_number = U64(0, 9) /\ b2.parent_hash = HashB
           \/ b2 = b1 /\ b1.parent_hash = HashA}

\* What a transport delivers in all: two frames, one frame, one frame and
\* garbage, or a frame that declares less than the 40 bytes of its fixed
\* fields.
StreamWires ==
    {TwoFrames(p[1], p[2]) : p \in BlockPairs}
        \cup {Encode(b) : b \in {x \in Blocks : x.block_number = U64(0, 5)}}
        \cup {WithGarbage(b) : b \in {x \in Blocks : x.block_number = U64(0, 9)}}
        \cup {Declared(len, 2 * (PARENT_HASH_LEN + BLOCK_ID_LEN)) : len \in ShortLens}

StreamInit ==
    /\ sent \in StreamWires
    /\ wire = sent
    /\ reader = TRUE
    /\ buf = <<>>
    /\ items = <<>>
    /\ last = NoPoll
    /\ src = <<>> /\ checkResult = NoResult /\ parseResult = NoResult
    /\ fWire = <<>> /\ fStream = <<>> /\ fTask = <<>> /\ fDecoded = <<>>
    /\ fEnded = <<>> /\ stream_hashes = EmptyMap /\ blocks = EmptyMap
    /\ fPc = "idle" /\ fResult = NotReturned
    /\ task = "runnable" /\ waker = FALSE /\ fWait = <<>>

\* One call of poll_next, the transport answering io if it is polled.  A
\* panic unwinds the caller: nothing is polled after it.
Pull(io) ==
    /\ last.tag # "Panic"
    /\ \E r \in {poll_next([reader |-> reader, buf |-> buf], io)} :
           /\ reader' = r.st.reader
           /\ buf' = r.st.buf
           /\ last' = r.poll
           /\ items' = IF r.poll.tag = "Item" THEN Append(items, r.poll.item) ELSE items
           /\ wire' = IF reader /\ io.tag = "Ok" THEN Drop(wire, Len(io.bytes)) ELSE wire
    /\ UNCHANGED sent

\* The transport appends the next n bytes, n >= 1.
PullData == \E n \in 1..Len(wire) : reader /\ Pull(IoOk(Take(wire, n)))
\* The transport has delivered everything: it reports 0 bytes.
PullEof == reader /\ wire = <<>> /\ Pull(IoOk(<<>>))
\* The transport is not ready.
PullPending == reader /\ Pull(IoPending)
\* The transport fails.
PullError == reader /\ Pull(IoErr)
\* A pull of a terminal stream: the transport is not polled.
PullTerminal == ~reader /\ Pull(IoPending)

----------------------------------------------------------------------------
(* find_common_ancestor                                                    *)

\* A set stored at a stream's first block that holds the block's hash.
first_block_hashes_of_parent(block) == {block.parent_hash}

\* The set a stream's task stores under its index at its first block:
\* HashSet::default().
first_block_hashes(block) == {}

RECURSIVE IntersectAll(_, _, _)
\* The loop over stream_hashes: common_hashes is intersected with every
\* stream's set in turn (in the map's iteration order, which the result does
\* not depend on).
IntersectAll(common, sh, keys) ==
    IF keys = {} THEN common
    ELSE LET k == CHOOSE x \in keys : TRUE
         IN  IntersectAll(common \cap sh[k], sh, keys \ {k})

\* common_hashes after the loop: it starts as HashSet::default().
common_hashes(sh) == IntersectAll({}, sh, DOMAIN sh)

\* results, had the emptiness test been made on the block table instead of
\* on the common hashes.
results_of_block_table(common, blks) ==
    IF DOMAIN blks = {} THEN {None} ELSE {Some(blks[h]) : h \in DOMAIN blks}

\* The values the function may return: None when there is no common hash,
\* else the block of whichever common hash the set's iterator gives first.
results(common, blks) ==
    IF common = {} THEN {None} ELSE {Some(blks[h]) : h \in common}

\* The streams of the model's searches: a transport carries one of these.
SearchBlockA == Block(HashA, U64(0, 5), <<>>)
SearchBlockB == Block(HashB, U64(0, 9), <<>>)
SearchBlockX == Block(HashX, U64(0, 5), <<>>)
SearchWires ==
    { WithGarbage(SearchBlockA), WithGarbage(SearchBlockB),
      TwoFrames(SearchBlockX, SearchBlockB),
      Encode(SearchBlockA),
      Declared(0, 2 * (PARENT_HASH_LEN + BLOCK_ID_LEN)) }

\* The sizes of the reads the model's transports serve a search with: one
\* byte, the rest of the wire, or all of it but its last byte.
SearchChunks(w) == {n \in {1, Len(w) - 1, Len(w)} : n >= 1 /\ n <= Len(w)}

SearchInit ==
    /\ \E n \in 1..MaxStreams :
          /\ fWire \in [1..n -> SearchWires]
          /\ fStream = [i \in 1..n |-> NewStream]
          /\ fTask = [i \in 1..n |-> "running"]
          /\ fDecoded = [i \in 1..n |-> <<>>]
          /\ fEnded = [i \in 1..n |-> "running"]
    /\ stream_hashes = EmptyMap
    /\ blocks = EmptyMap
    /\ fPc = "joining"
    /\ fResult = NotReturned
    /\ src = <<>> /\ checkResult = NoResult /\ parseResult = NoResult
    /\ sent = <<>> /\ wire = <<>> /\ reader = FALSE /\ buf = <<>>
    /\ items = <<>> /\ last = NoPoll
    /\ task = "runnable" /\ waker = FALSE
    /\ fWait = [i \in DOMAIN fWire |-> "runnable"]

Streams == DOMAIN fTask

\* How stream i's task ends at the poll result p (was: how it had ended):
\* the decoder ended, the transport failed, parse failed, or a block came
\* after the first.
task_end(p, first, was) ==
    CASE p.tag = "None" -> "end_of_stream"
      [] p.tag = "Item" /\ p.item.tag = "Err" /\ p.via = "transport" -> "transport_error"
      [] p.tag = "Item" /\ p.item.tag = "Err" /\ p.via # "transport" -> "decode_error"
      [] p.tag = "Item" /\ p.item.tag = "Ok" /\ ~first -> "second_block"
      [] OTHER -> was

\* One turn of stream i's task: stream.next() polls the decoder, the
\* transport answering io, and the loop body handles what it returned.
TaskStep(i, io) ==
    /\ fPc = "joining"
    /\ fTask[i] = "running"
    /\ \E r \in {poll_next(fStream[i], io)} :
       \E isOk \in {r.poll.tag = "Item" /\ r.poll.item.tag = "Ok"} :
       \E first \in {isOk /\ i \notin DOMAIN stream_hashes} :
           /\ fStream' = [fStream EXCEPT ![i] = r.st]
           /\ fWire' = [fWire EXCEPT ![i] =
                           IF PollsTransport(fStream[i]) /\ io.tag = "Ok"
                           THEN Drop(@, Len(io.bytes)) ELSE @]
           /\ fPc' = IF r.poll.tag = "Panic" THEN "panicked" ELSE fPc
           /\ fDecoded' = [fDecoded EXCEPT ![i] =
                              IF isOk THEN Append(@, r.poll.item.block) ELSE @]
           /\ stream_hashes' =
                 IF first
                 THEN MapInsert(stream_hashes, i, first_block_hashes(r.poll.item.block))
                 ELSE stream_hashes
           /\ blocks' =
                 IF first
                 THEN MapInsert(blocks, r.poll.item.block.parent_hash, r.poll.item.block)
                 ELSE blocks
           /\ fEnded' = [fEnded EXCEPT ![i] = task_end(r.poll, first, @)]
           /\ fTask' = [fTask EXCEPT ![i] =
                 IF r.poll.tag = "None" \/ (r.poll.tag = "Item" /\ ~first)
                 THEN "done" ELSE @]
    /\ UNCHANGED fResult

TaskData == \E i \in Streams : \E n \in SearchChunks(fWire[i]) :
                TaskStep(i, IoOk(Take(fWire[i], n)))
TaskEof == \E i \in Streams : fWire[i] = <<>> /\ TaskStep(i, IoOk(<<>>))
TaskPending == \E i \in Streams : TaskStep(i, IoPending)
TaskError == \E i \in Streams : TaskStep(i, IoErr)

\* join_all has completed: intersect the hash sets and return.
Return ==
    /\ fPc = "joining"
    /\ \A i \in Streams : fTask[i] = "done"
    /\ fResult' \in results(common_hashes(stream_hashes), blocks)
    /\ fPc' = "returned"
    /\ UNCHANGED <<fWire, fStream, fTask, fDecoded, fEnded, stream_hashes, blocks>>

----------------------------------------------------------------------------
(* One BlockStream pulled by a task of an executor                         *)

\* What becomes of the task that awaits stream.next() when poll_next returns
\* p: Pending suspends it, an item lets it go on to its next pull, None ends
\* its loop, a panic unwinds it.
task_after(p) ==
    CASE p.tag = "Pending" -> "suspended"
      [] p.tag = "None" -> "finished"
      [] p.tag = "Panic" -> "panicked"
      [] OTHER -> "runnable"

\* Whether the poll that returned p left the task's waker with the
\* transport: poll_read registers it when it answers Pending, and nothing
\* else in poll_next touches cx.
registers_waker(p) == p.tag = "Pending" /\ p.via = "transport"

StreamExecInit ==
    /\ sent \in StreamWires
    /\ wire = sent
    /\ reader = TRUE
    /\ buf = <<>>
    /\ items = <<>>
    /\ last = NoPoll
    /\ task = "runnable" /\ waker = FALSE /\ fWait = <<>>
    /\ src = <<>> /\ checkResult = NoResult /\ parseResult = NoResult
    /\ fWire = <<>> /\ fStream = <<>> /\ fTask = <<>> /\ fDecoded = <<>>
    /\ fEnded = <<>> /\ stream_hashes = EmptyMap /\ blocks = EmptyMap
    /\ fPc = "idle" /\ fResult = NotReturned

\* The executor polls the task, which is runnable: one call of poll_next.
Polled(io) ==
    /\ task = "runnable"
    /\ Pull(io)
    /\ task' = task_after(last')
    /\ waker' = registers_waker(last')

ExecData == \E n \in 1..Len(wire) : reader /\ Polled(IoOk(Take(wire, n)))
ExecEof == reader /\ wire = <<>> /\ Polled(IoOk(<<>>))
ExecPending == reader /\ Polled(IoPending)
ExecError == reader /\ Polled(IoErr)
ExecTerminal == ~reader /\ Polled(IoPending)

\* The transport has become ready: it wakes the waker it holds, and the
\* executor schedules the task again.
Wake ==
    /\ task = "suspended"
    /\ waker
    /\ task' = "runnable"
    /\ waker' = FALSE
    /\ UNCHANGED streamVars

----------------------------------------------------------------------------
(* find_common_ancestor polled by an executor                              *)

\* What becomes of a stream task in join_all when its decoder's poll returns
\* p: on Pending it waits, for the waker its transport holds or, when the
\* transport had answered Ready, for nothing; else it goes on.
wait_after(p) ==
    IF p.tag # "Pending" THEN "runnable"
    ELSE IF registers_waker(p) THEN "waiting" ELSE "stalled"

\* join_all polls stream i's task, which it has not polled since the call
\* was last scheduled: one turn of the task's loop.
RunTask(i, io) ==
    /\ fWait[i] = "runnable"
    /\ TaskStep(i, io)
    /\ \E r \in {poll_next(fStream[i], io)} :
           fWait' = [fWait EXCEPT ![i] = wait_after(r.poll)]

RunData == \E i \in Streams : \E n \in SearchChunks(fWire[i]) :
               RunTask(i, IoOk(Take(fWire[i], n)))
RunEof == \E i \in Streams : fWire[i] = <<>> /\ RunTask(i, IoOk(<<>>))
RunPending == \E i \in Streams : RunTask(i, IoPending)
RunError == \E i \in Streams : RunTask(i, IoErr)

\* A transport that holds the call's waker has become ready: the executor
\* schedules the call again and join_all polls every task that is not done.
WakeJoin ==
    /\ fPc = "joining"
    /\ \E i \in Streams : fTask[i] = "running" /\ fWait[i] = "waiting"
    /\ fWait' = [i \in Streams |-> "runnable"]
    /\ UNCHANGED searchVars

----------------------------------------------------------------------------
(* Specifications                                                          *)

\* check and parse called on one buffer.
CodecNext ==
    \/ CallCheck /\ UNCHANGED <<streamVars, searchVars, execVars>>
    \/ CallParse /\ UNCHANGED <<streamVars, searchVars, execVars>>
SpecCodec == CodecInit /\ [][CodecNext]_vars

\* One BlockStream pulled to its end.
StreamNext ==
    \/ PullData /\ UNCHANGED <<codecVars, searchVars, execVars>>
    \/ PullEof /\ UNCHANGED <<codecVars, searchVars, execVars>>
    \/ PullPending /\ UNCHANGED <<codecVars, searchVars, execVars>>
    \/ PullError /\ UNCHANGED <<codecVars, searchVars, execVars>>
    \/ PullTerminal /\ UNCHANGED <<codecVars, searchVars, execVars>>
SpecStream == StreamInit /\ [][StreamNext]_vars

\* One call of find_common_ancestor.
SearchNext ==
    \/ TaskData /\ UNCHANGED <<codecVars, streamVars, execVars>>
    \/ TaskEof /\ UNCHANGED <<codecVars, streamVars, execVars>>
    \/ TaskPending /\ UNCHANGED <<codecVars, streamVars, execVars>>
    \/ TaskError /\ UNCHANGED <<codecVars, streamVars, execVars>>
    \/ Return /\ UNCHANGED <<codecVars, streamVars, execVars>>
SpecSearch == SearchInit /\ [][SearchNext]_vars

\* One BlockStream pulled by a task that the executor polls when it is
\* runnable, and polls again only once its waker was woken.  The executor
\* is fair to a runnable task and a transport that holds a waker ends up
\* waking it.
StreamExecNext ==
    \/ ExecData /\ UNCHANGED <<codecVars, searchVars, fWait>>
    \/ ExecEof /\ UNCHANGED <<codecVars, searchVars, fWait>>
    \/ ExecPending /\ UNCHANGED <<codecVars, searchVars, fWait>>
    \/ ExecError /\ UNCHANGED <<codecVars, searchVars, fWait>>
    \/ ExecTerminal /\ UNCHANGED <<codecVars, searchVars, fWait>>
    \/ Wake /\ UNCHANGED <<codecVars, searchVars, fWait>>
SpecStreamExec ==
    StreamExecInit /\ [][StreamExecNext]_vars /\ WF_vars(StreamExecNext)

\* One call of find_common_ancestor polled by an executor: a task that
\* returned Pending is polled again only once the call was woken.  The
\* executor is fair to the call and a transport that holds the waker ends up
\* waking it.
SearchExecNext ==
    \/ RunData /\ UNCHANGED <<codecVars, streamVars, task, waker>>
    \/ RunEof /\ UNCHANGED <<codecVars, streamVars, task, waker>>
    \/ RunPending /\ UNCHANGED <<codecVars, streamVars, task, waker>>
    \/ RunError /\ UNCHANGED <<codecVars, streamVars, task, waker>>
    \/ WakeJoin /\ UNCHANGED <<codecVars, streamVars, task, waker>>
    \/ Return /\ UNCHANGED <<codecVars, streamVars, execVars>>
SpecSearchExec ==
    SearchInit /\ [][SearchExecNext]_vars /\ WF_vars(SearchExecNext)

----------------------------------------------------------------------------
(* Claims about the codec (SpecCodec)                                      *)

CheckCalled == checkResult # NoResult
ParseCalled == parseResult # NoResult

\* The buffer is a strict prefix of the frame of b.
IsTruncated(s, b) == Len(s) < Len(Encode(b)) /\ IsPrefix(s, Encode(b))

\* The buffer starts with a version-one header that declares a payload
\* shorter than the parent hash and the block number.
DeclaresShort(s) ==
    /\ Len(s) >= HeaderLen
    /\ s[1] = VERSION_ONE
    /\ FromBe(SubSeq(s, 2, HeaderLen)) < PARENT_HASH_LEN + BLOCK_ID_LEN

\* C2: round trip: parse of the frame that encodes a block returns Ok with
\* that block's block_number, parent_hash and content.
C2_RoundTrip ==
    \A b \in Blocks :
        (src = Encode(b) /\ ParseCalled) =>
            /\ parseResult.tag = "Ok"
            /\ parseResult.block.block_number = b.block_number
            /\ parseResult.block.parent_hash = b.parent_hash
            /\ parseResult.block.content = b.content

\* C3: on exactly the 5 + payload_length bytes of a valid frame, check
\* returns Ok(()) and parse returns Ok(block): neither reports Incomplete.
C3_ExactFrameComplete ==
    \A b \in Blocks :
        src = Encode(b) =>
            /\ CheckCalled => checkResult.tag = "Ok"
            /\ ParseCalled => parseResult.tag = "Ok"

\* C4: on every strictly shorter prefix of a valid frame, check and parse
\* both return Err(Incomplete).
C4_TruncationIncomplete ==
    \A b \in Blocks :
        IsTruncated(src, b) =>
            /\ CheckCalled => checkResult.tag = "Err" /\ checkResult.kind = "Incomplete"
            /\ ParseCalled => parseResult.tag = "Err" /\ parseResult.kind = "Incomplete"

\* C5: on a buffer of any length, check and parse return a value (Ok or
\* Err): no read of a field leaves the buffer, so neither panics.
C5_NeverPanics ==
    /\ CheckCalled => checkResult.tag \in {"Ok", "Err"}
    /\ ParseCalled => parseResult.tag \in {"Ok", "Err"}

\* C6: on a buffer whose header declares a payload_length below 40, parse
\* returns an error: it computes no wrapped content length and does not
\* panic.  Stated for the buffers that hold the header and 40 more bytes at
\* least, where the reads of the hash and of the number are in range and the
\* content length is what decides.
C6_UnderflowGuard ==
    (/\ DeclaresShort(src)
     /\ Len(src) >= HeaderLen + PARENT_HASH_LEN + BLOCK_ID_LEN
     /\ ParseCalled) => parseResult.tag = "Err"

\* C14: version conflation: on a buffer that is empty or whose first byte is
\* not 0x01, check and parse both return Err(Incomplete), whatever the other
\* bytes are.
C14_VersionConflation ==
    (src = <<>> \/ src[1] # VERSION_ONE) =>
        /\ CheckCalled => checkResult.tag = "Err" /\ checkResult.kind = "Incomplete"
        /\ ParseCalled => parseResult.tag = "Err" /\ parseResult.kind = "Incomplete"

\* C14's case: check and parse were both called on a buffer of a header's
\* length or more whose first byte is 2.
C14_Witness ==
    /\ Len(src) > HeaderLen
    /\ src[1] = 2
    /\ CheckCalled /\ checkResult.kind = "Incomplete"
    /\ ParseCalled /\ parseResult.kind = "Incomplete"

----------------------------------------------------------------------------
(* Claims about the stream decoder (SpecStream)                            *)

\* The transport failed during some pull.
TransportFailed == \E k \in DOMAIN items : items[k] = ItemErrOther
\* The stream has ended without a transport failure: end of input was read.
EndOfInputRead == ~reader /\ ~TransportFailed

\* C1: two valid frames F1 F2, delivered in any chunking and followed by end
\* of input, are yielded as exactly Ok(block of F1), Ok(block of F2), in that
\* order: at any time the items are a prefix of the two, at the end they are
\* the two, and no pull panics.
C1_TwoFramesInOrder ==
    \A p \in BlockPairs :
        (sent = TwoFrames(p[1], p[2]) /\ ~TransportFailed) =>
            /\ last.tag # "Panic"
            /\ IsPrefix(items, <<ItemOk(p[1]), ItemOk(p[2])>>)
            /\ EndOfInputRead => items = <<ItemOk(p[1]), ItemOk(p[2])>>

\* C11: the decoder never surfaces Incomplete as an item: a pull in which
\* check or parse reports Incomplete produces no item, so no yielded Err item
\* has the kind Incomplete.
C11_NoIncompleteItem ==
    \A k \in DOMAIN items :
        ~(items[k].tag = "Err" /\ items[k].kind = "Incomplete")

\* C12: a transport error is the last item: the pull in which the transport
\* fails yields one Err item of the transport's description and leaves the
\* decoder terminal, and every pull after it returns None, yields nothing
\* and does not poll the transport.
C12_TransportErrorIsLast ==
    [][/\ PullError =>
             /\ last' = PollItem("transport", ItemErrOther)
             /\ items' = Append(items, ItemErrOther)
             /\ ~reader'
       /\ TransportFailed =>
             /\ last' = PollNone("reader_none")
             /\ items' = items
             /\ wire' = wire
             /\ ~reader']_vars

\* C12's case: a block was yielded, then the transport failed, and the
\* stream was pulled again.
C12_Witness ==
    /\ Len(items) >= 2
    /\ items[1].tag = "Ok"
    /\ items[Len(items)] = ItemErrOther
    /\ last = PollNone("reader_none")

\* C13: end of input is absorbing: the pull in which the transport reports
\* zero bytes leaves the decoder terminal, and every pull after it returns
\* None, yields no item, does not poll the transport and leaves the buffer
\* as it was.
C13_EndOfInputAbsorbing ==
    [][/\ PullEof =>
             /\ last' = PollNone("eof")
             /\ ~reader'
       /\ EndOfInputRead =>
             /\ last' = PollNone("reader_none")
             /\ items' = items
             /\ wire' = wire
             /\ buf' = buf
             /\ ~reader']_vars

\* C13's case: end of input was read with bytes left in the buffer, and the
\* stream was pulled again.
C13_Witness ==
    /\ EndOfInputRead
    /\ buf # <<>>
    /\ last = PollNone("reader_none")

\* C15: progress after Incomplete: when the transport carries a valid frame,
\* a pull that leaves the task suspended has arranged its wake-up (the
\* transport holds the task's waker), so the task is polled again and the
\* block is yielded in the end.
C15_ProgressAfterIncomplete ==
    (\E b \in Blocks : IsPrefix(Encode(b), sent)) =>
        (task = "suspended" => waker)

\* C18: consumed prefix removal: after a pull in which check succeeds on a
\* buffer that starts with a frame of declared payload_length L, the buffer
\* is the buffer of before the decode (what was buffered and what the read
\* appended) without its 5 + L leading bytes, the rest unchanged.
C18_ConsumedPrefixRemoved ==
    [][(last'.tag = "Item" /\ last'.via = "parse") =>
          LET appended == Take(wire, Len(wire) - Len(wire'))
              before == buf \o appended
              L == FromBe(SubSeq(before, 2, HeaderLen))
          IN  buf' = Drop(before, HeaderLen + L)]_vars

\* C20: poll_next attempts a decode, and so yields a block, only in a pull in
\* which the transport appended a byte at least; the pull in which the
\* transport reports zero bytes makes the decoder terminal and leaves the
\* buffer as it is, unexamined: what is buffered then is never yielded.
C20_DecodeOnlyOnNewBytes ==
    [][/\ last'.via \in {"check", "parse", "incomplete"} => Len(wire') < Len(wire)
       /\ (Len(items') > Len(items) /\ items'[Len(items')].tag = "Ok") =>
             Len(wire') < Len(wire)
       /\ PullEof => buf' = buf /\ items' = items /\ ~reader'
       /\ ~reader => items' = items /\ buf' = buf]_vars

\* C20's case: two frames came in one read, the first block was yielded, and
\* end of input was read with the second frame whole in the buffer.
C20_Witness ==
    \E p \in BlockPairs :
        /\ sent = TwoFrames(p[1], p[2])
        /\ items = <<ItemOk(p[1])>>
        /\ EndOfInputRead
        /\ Len(buf) >= Len(Encode(p[2]))
        /\ Drop(buf, Len(buf) - Len(Encode(p[2]))) = Encode(p[2])

----------------------------------------------------------------------------
(* Claims about find_common_ancestor (SpecSearch)                          *)

Returned == fPc = "returned"

\* The blocks stream i's decoder yielded, and their parent hashes.
DecodedBlocks(i) == {fDecoded[i][k] : k \in DOMAIN fDecoded[i]}
DecodedHashes(i) == {b.parent_hash : b \in DecodedBlocks(i)}
AllDecodedBlocks == UNION {DecodedBlocks(i) : i \in Streams}
\* The hashes every stream decoded.
CommonDecoded ==
    {h \in UNION {DecodedHashes(i) : i \in Streams} :
        \A i \in Streams : h \in DecodedHashes(i)}

\* The hash set stored for stream i, empty when none is.
HashesOf(i) == IF i \in DOMAIN stream_hashes THEN stream_hashes[i] ELSE {}

\* C7: when every stream decodes a block and some hash is decoded by all of
\* them, the search returns Some(block) with a parent_hash all of them
\* decoded, in whatever order the tasks ran.
C7_CommonAncestorFound ==
    (Returned /\ (\A i \in Streams : fDecoded[i] # <<>>) /\ CommonDecoded # {}) =>
        fResult.tag = "Some" /\ fResult.block.parent_hash \in CommonDecoded

\* C8: when several hashes are common to all of two or more streams, the
\* search returns the block of greatest block_number among the blocks of the
\* common hashes.
C8_TieBreakRecency ==
    (Returned /\ Cardinality(Streams) >= 2 /\ Cardinality(CommonDecoded) >= 2) =>
        /\ fResult.tag = "Some"
        /\ fResult.block \in AllDecodedBlocks
        /\ fResult.block.parent_hash \in CommonDecoded
        /\ \A b \in AllDecodedBlocks :
              b.parent_hash \in CommonDecoded =>
                  ~U64Less(fResult.block.block_number, b.block_number)

\* C9: when a stream of several fails (its transport, or a decode), the call
\* still returns, every other task has run until its decoder ended or
\* failed, and every stream's hash set, the failed one's included, holds
\* the hashes that stream decoded.
C9_PartialStreamIsolation ==
    (/\ Returned
     /\ Cardinality(Streams) >= 2
     /\ \E f \in Streams : fEnded[f] \in {"transport_error", "decode_error"}) =>
        \A i \in Streams :
            /\ fEnded[i] \in {"end_of_stream", "transport_error", "decode_error"}
            /\ HashesOf(i) = DecodedHashes(i)

\* C10: when no hash is decoded by every stream, the search returns Ok(None).
C10_NoCommonAncestor ==
    (Returned /\ CommonDecoded = {}) => fResult = None

\* C10's case: two streams decoded a block each, of different hashes, and the
\* search has returned None.
C10_Witness ==
    /\ Returned
    /\ fResult = None
    /\ \E i, j \in Streams :
          /\ DecodedHashes(i) # {} /\ DecodedHashes(j) # {}
          /\ DecodedHashes(i) \cap DecodedHashes(j) = {}
\* C16: search termination: while the call is joining and a stream task has
\* not completed, some such task is about to be polled or has a wake-up
\* pending with its transport, so the call never waits forever on a stream
\* whose transport still has an outcome to report, and it returns in the end.
C16_SearchTerminates ==
    (fPc = "joining" /\ \E i \in Streams : fTask[i] = "running") =>
        \E i \in Streams :
            fTask[i] = "running" /\ fWait[i] \in {"runnable", "waiting"}

\* C17: per-stream bookkeeping: a stream task stops only when its decoder
\* ended or yielded an error; every block it received has its parent_hash in
\* that stream's hash set and in the block table; so once the tasks have
\* completed, stream i's hash set is the set of parent hashes stream i
\* decoded.
C17_PerStreamBookkeeping ==
    /\ \A i \in Streams :
          /\ fTask[i] = "done" =>
                fEnded[i] \in {"end_of_stream", "transport_error", "decode_error"}
          /\ \A b \in DecodedBlocks(i) :
                b.parent_hash \in HashesOf(i) /\ b.parent_hash \in DOMAIN blocks
    /\ (\A i \in Streams : fTask[i] = "done") =>
          \A i \in Streams : HashesOf(i) = DecodedHashes(i)

============================================================================
